---- MODULE Spec2Model ----
(***************************************************************************)
(* The MCP ClientManager (package mcp): the registry userID -> UserClient, *)
(* its get-or-create lookup, the cleanup goroutine and Close.              *)
(* The clock counts periods of the cleanup ticker (5 minutes each).        *)
(* Spec starts from a constructed manager, SpecNew from NewClientManager,  *)
(* and SpecToolCall is one HandleToolCall of the conversations package.    *)
(* SpecStored and SpecFair start from a manager with one client stored;    *)
(* SpecFair adds the scheduling assumptions for the liveness property.     *)
(***************************************************************************)
EXTENDS Integers, Sequences, FiniteSets, TLC

\* ---------------------------------------------------------------- bounds
MaxTime == 2
IdleTimeoutMinutes == 5

\* ------------------------------------------------------- program constants
DefaultIdleTimeoutMinutes == 30
\* minutes between two ticks of m.cleanupTicker; one unit of the clock
CleanupInterval == 5

\* ------------------------------------------------------------ small sets
Users == {"u1", "u2"}
Procs == {"p1", "p2"}
Servers == {"a", "b"}
Tools == {"x", "y", "z"}

NoClient == 0
NoTime == -1
NoServer == "none"
Unlocked == "unlocked"
Cleaner == "cleaner"
Closer == "closer"

\* The tools each configured server advertises ("x" is advertised by both).
ServerTools(s) == IF s = "a" THEN {"x", "y"} ELSE {"x", "z"}

VARIABLES
    now,            \* the wall clock, time.Now()
    config,         \* the Config handed to NewClientManager
    manager,        \* what NewClientManager returned: "nil" or "active"
    clientTimeout,  \* m.clientTimeout
    toolCall,       \* the state of one Conversations.HandleToolCall
    clients,        \* m.clients : userID -> index into heap, NoClient if absent
    heap,           \* every UserClient ever allocated, by allocation order
    clientsMu,      \* m.clientsMu : [writer, readers]
    tickC,          \* a tick is waiting in m.cleanupTicker.C
    tickerStopped,  \* m.cleanupTicker.Stop() has been called
    closeChan,      \* m.closeChan is closed
    pc,             \* position of each GetToolsForUser caller
    userID,         \* the caller's argument
    client,         \* the caller's *UserClient (NoClient for nil)
    userClient,     \* the UserClient the call allocated in createAndStoreUserClient
    tnow,           \* the value the caller read from time.Now()
    err,            \* the caller's error result is non-nil
    cleanerPc,      \* position of the cleanupInactiveClients goroutine
    cnow,           \* its local now
    todo,           \* userIDs its range loop has not visited yet
    closePc,        \* position of the goroutine calling ClientManager.Close
    closeTodo,      \* userIDs the range loop of Close has not visited yet
    lastErr         \* lastErr of Close: the client whose Close failed last

vars == <<now, config, manager, clientTimeout, toolCall, clients, heap, clientsMu, tickC,
          tickerStopped, closeChan, pc, userID, client, userClient, tnow, err,
          cleanerPc, cnow, todo, closePc, closeTodo, lastErr>>

configVars == <<config, manager, clientTimeout, toolCall>>
reqVars == <<pc, userID, client, userClient, tnow, err>>
cleanerVars == <<cleanerPc, cnow, todo>>
closeVars == <<closePc, closeTodo, lastErr>>
tickerVars == <<tickC, tickerStopped, closeChan>>

\* ------------------------------------------------------------ NewClientManager
\* time.Duration is an int64 count of nanoseconds: the largest whole number of
\* minutes it holds is math.MaxInt64 / time.Minute ...
MaxDurationMinutes == 153722867
\* ... and 2^64 nanoseconds, rounded up to whole minutes
DurationWrapMinutes == 307445735

\* time.Duration(n) * time.Minute, in whole minutes (rounded down): the product
\* wraps around modulo 2^64 (n ranges to MaxDurationMinutes + DurationWrapMinutes)
DurationMinutes(n) ==
    IF n > MaxDurationMinutes THEN n - DurationWrapMinutes ELSE n

\* config.IdleTimeoutMinutes <= 0 is replaced by 30; the timeout is that many minutes.
EffectiveTimeout(n) ==
    DurationMinutes(IF n <= 0 THEN DefaultIdleTimeoutMinutes ELSE n)

\* the values of config.IdleTimeoutMinutes a construction is tried with
IdleTimeoutInputs ==
    {-1, 0, 1, IdleTimeoutMinutes, DefaultIdleTimeoutMinutes,
     DefaultIdleTimeoutMinutes + 1, MaxDurationMinutes, MaxDurationMinutes + 1}

Configs ==
    [enabled : BOOLEAN, servers : SUBSET Servers, idleTimeoutMinutes : IdleTimeoutInputs]

\* the HandleToolCall of the conversations package has not been entered
NoToolCall ==
    [pc |-> "none", prop |-> [kind |-> "missing", calls |-> <<>>], accepted |-> {},
     tools |-> <<>>, i |-> 1, resolved |-> {}, failed |-> {}, updated |-> FALSE,
     completion |-> FALSE, ret |-> "none"]

\* The state once NewClientManager has returned an active manager for the
\* configuration every server of which is enabled.
Init ==
    /\ now = 0
    /\ config = [enabled |-> TRUE, servers |-> Servers,
                 idleTimeoutMinutes |-> IdleTimeoutMinutes]
    /\ manager = "active"
    /\ clientTimeout = EffectiveTimeout(IdleTimeoutMinutes)
    /\ toolCall = NoToolCall
    /\ clients = [u \in Users |-> NoClient]
    /\ heap = <<>>
    /\ clientsMu = [writer |-> Unlocked, readers |-> {}]
    /\ tickC = FALSE
    /\ tickerStopped = FALSE
    /\ closeChan = FALSE
    /\ pc = [p \in Procs |-> "idle"]
    /\ userID = [p \in Procs |-> "u1"]
    /\ client = [p \in Procs |-> NoClient]
    /\ userClient = [p \in Procs |-> NoClient]
    /\ tnow = [p \in Procs |-> NoTime]
    /\ err = [p \in Procs |-> FALSE]
    /\ cleanerPc = "select"
    /\ cnow = NoTime
    /\ todo = {}
    /\ closePc = "idle"
    /\ closeTodo = {}
    /\ lastErr = NoClient

\* Before NewClientManager is called: any configuration, no manager, no goroutine.
InitNew ==
    /\ now = 0
    /\ config \in Configs
    /\ manager = "unconstructed"
    /\ clientTimeout = 0
    /\ toolCall = NoToolCall
    /\ clients = [u \in Users |-> NoClient]
    /\ heap = <<>>
    /\ clientsMu = [writer |-> Unlocked, readers |-> {}]
    /\ tickC = FALSE
    /\ tickerStopped = FALSE
    /\ closeChan = FALSE
    /\ pc = [p \in Procs |-> "idle"]
    /\ userID = [p \in Procs |-> "u1"]
    /\ client = [p \in Procs |-> NoClient]
    /\ userClient = [p \in Procs |-> NoClient]
    /\ tnow = [p \in Procs |-> NoTime]
    /\ err = [p \in Procs |-> FALSE]
    /\ cleanerPc = "none"
    /\ cnow = NoTime
    /\ todo = {}
    /\ closePc = "idle"
    /\ closeTodo = {}
    /\ lastErr = NoClient

\* if !config.Enabled || len(config.Servers) == 0
DisabledAndEmpty(cfg) == ~cfg.enabled /\ cfg.servers = {}
Disabled(cfg) == ~cfg.enabled \/ cfg.servers = {}

\* NewClientManager(config, log): return nil, nil when disabled; otherwise the
\* manager is built, the ticker is created and the cleanup goroutine is started.
NewClientManager ==
    /\ manager = "unconstructed"
    /\ IF Disabled(config)
       THEN /\ manager' = "nil"
            /\ UNCHANGED <<clientTimeout, clients, tickerVars, cleanerPc>>
       ELSE /\ manager' = "active"
            /\ clientTimeout' = EffectiveTimeout(config.idleTimeoutMinutes)
            /\ clients' = [u \in Users |-> NoClient]
            /\ closeChan' = FALSE
            /\ tickerStopped' = FALSE
            /\ tickC' = FALSE
            /\ cleanerPc' = "select"
    /\ UNCHANGED <<now, config, toolCall, heap, clientsMu, reqVars, cnow, todo, closeVars>>

\* ------------------------------------------------------------ sync.RWMutex
CanRLock == clientsMu.writer = Unlocked
LockNotExclusive == TRUE
CanLock == clientsMu.writer = Unlocked /\ clientsMu.readers = {}
Locked(w) == [writer |-> w, readers |-> {}]
Free == [writer |-> Unlocked, readers |-> {}]

\* ------------------------------------------------------------ UserClient
NewUserClient(u, tm) ==
    [userID |-> u,
     clients |-> {},
     toolDefs |-> [tl \in Tools |-> NoServer],
     lastActivity |-> tm,
     connErr |-> FALSE,
     published |-> FALSE,
     closed |-> 0,
     closeErr |-> FALSE]

\* One server of ConnectToAllServers connected: its session is kept and its
\* tools are registered under their names, replacing an earlier registration.
AddServerKeepFirst(o, s) ==
    [o EXCEPT !.clients = @ \cup {s},
              !.toolDefs = [tl \in Tools |->
                  IF tl \in ServerTools(s) /\ @[tl] = NoServer THEN s ELSE @[tl]]]
AddServer(o, s) ==
    [o EXCEPT !.clients = @ \cup {s},
              !.toolDefs = [tl \in Tools |-> IF tl \in ServerTools(s) THEN s ELSE @[tl]]]

\* UserClient.GetTools: the names of the registered tools.
GetTools(o) == {tl \in Tools : o.toolDefs[tl] # NoServer}

\* UserClient.Close: every session is closed; ok is FALSE when a close failed.
CloseClient(o, ok) ==
    [o EXCEPT !.closed = @ + 1, !.closeErr = @ \/ ~ok]

\* client.lastActivity = time.Now()
NoRefresh(o, tm) == o
SetLastActivity(o, tm) == [o EXCEPT !.lastActivity = tm]

\* a panic aborts the program: no goroutine takes another step
Running == manager = "active" /\ closePc # "panic"

\* ------------------------------------------------------------ the wall clock
\* One period of time.NewTicker(5 * time.Minute) elapses: unless the ticker is
\* stopped a tick is put in its one-slot channel C (dropped when the slot is full).
AdvanceTime ==
    /\ Running
    /\ now < MaxTime
    /\ now' = now + 1
    /\ tickC' = (tickC \/ ~tickerStopped)
    /\ UNCHANGED <<configVars, clients, heap, clientsMu, tickerStopped, closeChan,
                   reqVars, cleanerVars, closeVars>>

\* ------------------------------------------------------------ GetToolsForUser
\* A caller goroutine enters GetToolsForUser(u); each goroutine makes one call,
\* and none starts once Close has been called.
GetToolsForUser(p, u) ==
    /\ Running
    /\ pc[p] = "idle"
    /\ closePc = "idle"
    /\ pc' = [pc EXCEPT ![p] = "lookup"]
    /\ userID' = [userID EXCEPT ![p] = u]
    /\ UNCHANGED <<now, configVars, clients, heap, clientsMu, tickerVars, client,
                   userClient, tnow, err, cleanerVars, closeVars>>

\* getClientForUser: m.clientsMu.RLock(); client, exists := m.clients[userID];
\* m.clientsMu.RUnlock()
Lookup(p) ==
    /\ Running
    /\ pc[p] = "lookup"
    /\ CanRLock
    /\ client' = [client EXCEPT ![p] = clients[userID[p]]]
    /\ clientsMu' = clientsMu
    /\ pc' = [pc EXCEPT ![p] = IF clients[userID[p]] # NoClient THEN "fastNow" ELSE "Lock"]
    /\ UNCHANGED <<now, configVars, clients, heap, tickerVars, userID,
                   userClient, tnow, err,  cleanerVars, closeVars>>

\* getClientForUser, entry found: time.Now() is evaluated ...
FastNow(p) ==
    /\ Running
    /\ pc[p] = "fastNow"
    /\ tnow' = [tnow EXCEPT ![p] = now]
    /\ pc' = [pc EXCEPT ![p] = "fastSet"]
    /\ UNCHANGED <<now, configVars, clients, heap, clientsMu, tickerVars, userID,
                   client, userClient, err,  cleanerVars, closeVars>>

\* ... and stored in client.lastActivity, with no lock held; return client, nil
FastSet(p) ==
    /\ Running
    /\ pc[p] = "fastSet"
    /\ heap' = [heap EXCEPT ![client[p]] = SetLastActivity(@, tnow[p])]
    /\ pc' = [pc EXCEPT ![p] = "return"]
    /\ UNCHANGED <<now, configVars, clients, clientsMu, tickerVars, userID,
                   client, userClient, tnow, err,  cleanerVars, closeVars>>

\* createAndStoreUserClient: client, exists := m.clients[userID]
RecheckSkipped(u) == FALSE
RecheckExists(u) == clients[u] # NoClient

\* createAndStoreUserClient: m.clientsMu.Lock(); the recheck finds the entry
\* another goroutine stored: time.Now() is evaluated ...
RecheckHit(p) ==
    /\ Running
    /\ pc[p] = "Lock"
    /\ CanLock
    /\ RecheckExists(userID[p])
    /\ clientsMu' = Locked(p)
    /\ client' = [client EXCEPT ![p] = clients[userID[p]]]
    /\ tnow' = [tnow EXCEPT ![p] = now]
    /\ pc' = [pc EXCEPT ![p] = "recheckSet"]
    /\ UNCHANGED <<now, configVars, clients, heap, tickerVars, userID,
                   userClient, err,  cleanerVars, closeVars>>

\* ... and stored in client.lastActivity; return client, nil (deferred Unlock)
RecheckSet(p) ==
    /\ Running
    /\ pc[p] = "recheckSet"
    /\ heap' = [heap EXCEPT ![client[p]] = SetLastActivity(@, tnow[p])]
    /\ clientsMu' = Free
    /\ pc' = [pc EXCEPT ![p] = "return"]
    /\ UNCHANGED <<now, configVars, clients, tickerVars, userID, client,
                   userClient, tnow, err,  cleanerVars, closeVars>>

\* a creation that stores the UserClient before it is connected
CreateAndStoreEarly(p) ==
    /\ Running
    /\ pc[p] = "Lock"
    /\ CanLock
    /\ ~RecheckExists(userID[p])
    /\ clientsMu' = Locked(p)
    /\ heap' = Append(heap, NewUserClient(userID[p], now))
    /\ clients' = [clients EXCEPT ![userID[p]] = Len(heap) + 1]
    /\ userClient' = [userClient EXCEPT ![p] = Len(heap) + 1]
    /\ tnow' = [tnow EXCEPT ![p] = now]
    /\ pc' = [pc EXCEPT ![p] = "connect"]
    /\ UNCHANGED <<now, configVars, tickerVars, userID, client, err, cleanerVars,
                   closeVars>>

\* createAndStoreUserClient: m.clientsMu.Lock(); the recheck finds no entry:
\* userClient := &UserClient{... lastActivity: time.Now() ...}
CreateUserClient(p) ==
    /\ Running
    /\ pc[p] = "Lock"
    /\ CanLock
    /\ ~RecheckExists(userID[p])
    /\ clientsMu' = Locked(p)
    /\ heap' = Append(heap, NewUserClient(userID[p], now))
    /\ userClient' = [userClient EXCEPT ![p] = Len(heap) + 1]
    /\ tnow' = [tnow EXCEPT ![p] = now]
    /\ pc' = [pc EXCEPT ![p] = "connect"]
    /\ UNCHANGED <<now, configVars, clients, tickerVars, userID,
                   client, err,  cleanerVars, closeVars>>

\* ConnectToAllServers, one server of the range loop: the server connects
ConnectToServer(p, s) ==
    /\ Running
    /\ pc[p] = "connect"
    /\ s \in Servers \ heap[userClient[p]].clients
    /\ heap' = [heap EXCEPT ![userClient[p]] = AddServer(@, s)]
    /\ pc' = [pc EXCEPT ![p] =
                IF heap[userClient[p]].clients \cup {s} = Servers THEN "store" ELSE "connect"]
    /\ UNCHANGED <<now, configVars, clients, clientsMu, tickerVars, userID,
                   client, userClient, tnow, err,  cleanerVars, closeVars>>

\* a failed creation that stores the partly connected UserClient all the same
ConnectFailedStores(p, s) ==
    /\ Running
    /\ pc[p] = "connect"
    /\ s \in Servers \ heap[userClient[p]].clients
    /\ heap' = [heap EXCEPT ![userClient[p]].connErr = TRUE]
    /\ clients' = [clients EXCEPT ![userID[p]] = userClient[p]]
    /\ err' = [err EXCEPT ![p] = TRUE]
    /\ clientsMu' = Free
    /\ pc' = [pc EXCEPT ![p] = "return"]
    /\ UNCHANGED <<now, configVars, tickerVars, userID, client, userClient, tnow,
                   cleanerVars, closeVars>>

\* a failed creation that tries again with a new UserClient
ConnectFailedRetries(p, s) ==
    /\ Running
    /\ pc[p] = "connect"
    /\ s \in Servers \ heap[userClient[p]].clients
    /\ heap' = Append([heap EXCEPT ![userClient[p]].connErr = TRUE],
                      NewUserClient(userID[p], now))
    /\ userClient' = [userClient EXCEPT ![p] = Len(heap) + 1]
    /\ UNCHANGED <<now, configVars, clients, clientsMu, tickerVars, pc, userID,
                   client, tnow, err, cleanerVars, closeVars>>

\* a failed creation that returns the error with the lock still held
ConnectFailedHoldsLock(p, s) ==
    /\ Running
    /\ pc[p] = "connect"
    /\ s \in Servers \ heap[userClient[p]].clients
    /\ heap' = [heap EXCEPT ![userClient[p]].connErr = TRUE]
    /\ err' = [err EXCEPT ![p] = TRUE]
    /\ pc' = [pc EXCEPT ![p] = "return"]
    /\ UNCHANGED <<now, configVars, clients, clientsMu, tickerVars, userID, client,
                   userClient, tnow,  cleanerVars, closeVars>>

\* ConnectToAllServers, one server of the range loop: the server fails to
\* connect; ConnectToAllServers returns the error, createAndStoreUserClient
\* returns nil and the error (deferred Unlock).
ConnectFailed(p, s) ==
    /\ Running
    /\ pc[p] = "connect"
    /\ s \in Servers \ heap[userClient[p]].clients
    /\ heap' = [heap EXCEPT ![userClient[p]].connErr = TRUE]
    /\ err' = [err EXCEPT ![p] = TRUE]
    /\ clientsMu' = Free
    /\ pc' = [pc EXCEPT ![p] = "return"]
    /\ UNCHANGED <<now, configVars, clients, tickerVars, userID, client,
                   userClient, tnow,  cleanerVars, closeVars>>

\* createAndStoreUserClient: m.clients[userID] = userClient; return userClient, nil
Store(p) ==
    /\ Running
    /\ pc[p] = "store"
    /\ clients' = [clients EXCEPT ![userID[p]] = userClient[p]]
    /\ heap' = [heap EXCEPT ![userClient[p]].published = TRUE]
    /\ client' = [client EXCEPT ![p] = userClient[p]]
    /\ clientsMu' = Free
    /\ pc' = [pc EXCEPT ![p] = "return"]
    /\ UNCHANGED <<now, configVars, tickerVars, userID, userClient, tnow, err,  cleanerVars, closeVars>>

\* What GetToolsForUser returns once getClientForUser has returned: the
\* wrapped error and a nil list, or userClient.GetTools().
Result(p) ==
    [err |-> err[p],
     tools |-> IF err[p] THEN {} ELSE GetTools(heap[client[p]])]

\* GetToolsForUser returns Result(p); the caller's frame is gone and the
\* goroutine ends.
Return(p) ==
    /\ Running
    /\ pc[p] = "return"
    /\ pc' = [pc EXCEPT ![p] = "returned"]
    /\ userID' = [userID EXCEPT ![p] = "u1"]
    /\ client' = [client EXCEPT ![p] = NoClient]
    /\ userClient' = [userClient EXCEPT ![p] = NoClient]
    /\ tnow' = [tnow EXCEPT ![p] = NoTime]
    /\ err' = [err EXCEPT ![p] = FALSE]
    /\ UNCHANGED <<now, configVars, clients, heap, clientsMu, tickerVars, 
                   cleanerVars, closeVars>>

\* ------------------------------------------------------------ cleanupInactiveClients
Entries == {u \in Users : clients[u] # NoClient}

\* select: case <-m.cleanupTicker.C
SelectTick ==
    /\ Running
    /\ cleanerPc = "select"
    /\ tickC
    /\ tickC' = FALSE
    /\ cleanerPc' = "Lock"
    /\ UNCHANGED <<now, configVars, clients, heap, clientsMu, tickerStopped,
                   closeChan, reqVars, cnow, todo, closeVars>>

\* select: case <-m.closeChan: m.cleanupTicker.Stop(); return
SelectClose ==
    /\ Running
    /\ cleanerPc = "select"
    /\ closeChan
    /\ tickerStopped' = TRUE
    /\ cleanerPc' = "exited"
    /\ UNCHANGED <<now, configVars, clients, heap, clientsMu, tickC,
                   closeChan, reqVars, cnow, todo, closeVars>>

\* m.clientsMu.Lock(); now := time.Now(); the range loop starts
CleanerLock ==
    /\ Running
    /\ cleanerPc = "Lock"
    /\ CanLock
    /\ clientsMu' = Locked(Cleaner)
    /\ cnow' = now
    /\ todo' = Entries
    /\ cleanerPc' = "scan"
    /\ UNCHANGED <<now, configVars, clients, heap, tickerVars, reqVars, closeVars>>

\* now.Sub(client.lastActivity) > m.clientTimeout, both sides in minutes
IdleOrEqual(la, tm) == (tm - la) * CleanupInterval >= clientTimeout
Idle(la, tm) == (tm - la) * CleanupInterval > clientTimeout

\* delete(m.clients, userID)
NoDelete(cl, u) == cl
Delete(cl, u) == [cl EXCEPT ![u] = NoClient]

\* the entries the range loop still visits after visiting u
BreakAfter(td, u) == {}
Remaining(td, u) == td \ {u}

\* an eviction that waits until no caller holds the client
EvictInactiveWhenUnused(u, ok) ==
    /\ Running
    /\ cleanerPc = "scan"
    /\ u \in todo
    /\ Idle(heap[clients[u]].lastActivity, cnow)
    /\ \A p \in Procs : client[p] # clients[u]
    /\ heap' = [heap EXCEPT ![clients[u]] = CloseClient(@, ok)]
    /\ clients' = Delete(clients, u)
    /\ todo' = Remaining(todo, u)
    /\ UNCHANGED <<now, configVars, clientsMu, tickerVars, reqVars, cleanerPc,
                   cnow, closeVars>>

\* an eviction that leaves the entry in the registry when client.Close() failed
EvictInactiveKeepsFailed(u, ok) ==
    /\ Running
    /\ cleanerPc = "scan"
    /\ u \in todo
    /\ Idle(heap[clients[u]].lastActivity, cnow)
    /\ heap' = [heap EXCEPT ![clients[u]] = CloseClient(@, ok)]
    /\ clients' = IF ok THEN Delete(clients, u) ELSE clients
    /\ todo' = Remaining(todo, u)
    /\ UNCHANGED <<now, configVars, clientsMu, tickerVars, reqVars, cleanerPc,
                   cnow, closeVars>>

\* one iteration of the range loop, the client is inactive: client.Close()
\* (an error is logged), delete(m.clients, userID)
EvictInactive(u, ok) ==
    /\ Running
    /\ cleanerPc = "scan"
    /\ u \in todo
    /\ Idle(heap[clients[u]].lastActivity, cnow)
    /\ heap' = [heap EXCEPT ![clients[u]] = CloseClient(@, ok)]
    /\ clients' = Delete(clients, u)
    /\ todo' = Remaining(todo, u)
    /\ UNCHANGED <<now, configVars, clientsMu, tickerVars, reqVars, cleanerPc,
                   cnow, closeVars>>

\* one iteration of the range loop, the client is not inactive
KeepActive(u) ==
    /\ Running
    /\ cleanerPc = "scan"
    /\ u \in todo
    /\ ~Idle(heap[clients[u]].lastActivity, cnow)
    /\ todo' = todo \ {u}
    /\ UNCHANGED <<now, configVars, clients, heap, clientsMu, tickerVars, reqVars,
                   cleanerPc, cnow, closeVars>>

\* the range loop is over: m.clientsMu.Unlock(), back to the select
CleanerUnlock ==
    /\ Running
    /\ cleanerPc = "scan"
    /\ todo = {}
    /\ clientsMu' = Free
    /\ cnow' = NoTime
    /\ cleanerPc' = "select"
    /\ UNCHANGED <<now, configVars, clients, heap, tickerVars, reqVars, todo,
                   closeVars>>

\* ------------------------------------------------------------ ClientManager.Close
\* close(m.closeChan)
CloseCloseChan ==
    /\ Running
    /\ closePc = "idle"
    /\ closeChan' = TRUE
    /\ closePc' = "Stop"
    /\ UNCHANGED <<now, configVars, clients, heap, clientsMu, tickC,
                   tickerStopped, reqVars, cleanerVars, closeTodo, lastErr>>

\* Close, if its close(m.closeChan) returned on a closed channel
CloseAgainRuns ==
    /\ closePc = "done"
    /\ closeChan
    /\ closePc' = "Stop"
    /\ UNCHANGED <<now, configVars, clients, heap, clientsMu, tickerVars, reqVars,
                   cleanerVars, closeTodo, lastErr>>

\* Close is called again: close(m.closeChan) of a closed channel panics
CloseAgain ==
    /\ closePc = "done"
    /\ closeChan
    /\ closePc' = "panic"
    /\ UNCHANGED <<now, configVars, clients, heap, clientsMu, tickerVars, reqVars,
                   cleanerVars, closeTodo, lastErr>>

\* m.cleanupTicker.Stop()
CloseStopTicker ==
    /\ Running
    /\ closePc = "Stop"
    /\ tickerStopped' = TRUE
    /\ closePc' = "Lock"
    /\ UNCHANGED <<now, configVars, clients, heap, clientsMu, tickC,
                   closeChan, reqVars, cleanerVars, closeTodo, lastErr>>

\* var lastErr error; m.clientsMu.Lock(); the range loop starts
CloseLock ==
    /\ Running
    /\ closePc = "Lock"
    /\ CanLock
    /\ clientsMu' = Locked(Closer)
    /\ closeTodo' = Entries
    /\ lastErr' = NoClient
    /\ closePc' = "closing"
    /\ UNCHANGED <<now, configVars, clients, heap, tickerVars, reqVars, cleanerVars>>

\* Close: if err := client.Close(); err != nil { ...; lastErr = err }
FirstErr(le, c, ok) == IF ok \/ le # NoClient THEN le ELSE c
LastErr(le, c, ok) == IF ok THEN le ELSE c

\* Close: for userID, client := range m.clients goes on to the next entry,
\* whether client.Close() failed or not
BreakOnError(td, u, ok) == IF ok THEN td \ {u} ELSE {}
NextOfRange(td, u, ok) == td \ {u}

\* one iteration of the range loop: client.Close(), an error is logged and kept in lastErr
CloseUserClient(u, ok) ==
    /\ Running
    /\ closePc = "closing"
    /\ u \in closeTodo
    /\ heap' = [heap EXCEPT ![clients[u]] = CloseClient(@, ok)]
    /\ lastErr' = LastErr(lastErr, clients[u], ok)
    /\ closeTodo' = NextOfRange(closeTodo, u, ok)
    /\ UNCHANGED <<now, configVars, clients, clientsMu, tickerVars, reqVars,
                   cleanerVars, closePc>>

\* a Close that returns without replacing the map
CloseKeepsMap ==
    /\ Running
    /\ closePc = "closing"
    /\ closeTodo = {}
    /\ clients' = clients
    /\ clientsMu' = Free
    /\ closePc' = "done"
    /\ UNCHANGED <<now, configVars, heap, tickerVars, reqVars, cleanerVars,
                   closeTodo, lastErr>>

\* m.clients = make(map[string]*UserClient); return lastErr (deferred Unlock)
CloseClear ==
    /\ Running
    /\ closePc = "closing"
    /\ closeTodo = {}
    /\ clients' = [u \in Users |-> NoClient]
    /\ clientsMu' = Free
    /\ closePc' = "done"
    /\ UNCHANGED <<now, configVars, heap, tickerVars, reqVars, cleanerVars,
                   closeTodo, lastErr>>

\* ------------------------------------------------------------ HandleToolCall
\* (package conversations) the approval or rejection of the pending tool
\* calls of a post; toolCall.ret is the returned error, "nil" for none.
MaxBatch == 3
ToolCallIDs == {"t1", "t2"}

ToolCallStatusPending == "Pending"
ToolCallStatusRejected == "Rejected"
ToolCallStatusError == "Error"
ToolCallStatusSuccess == "Success"

\* what ResolveTool returns for a tool that ran
ToolOutput == "output"

PendingCall(id) == [id |-> id, status |-> ToolCallStatusPending, result |-> ""]

\* the values of the post's tool call prop: absent, not JSON, or a list of
\* at most MaxBatch pending calls
Batches ==
    UNION {[1..n -> {PendingCall(id) : id \in ToolCallIDs}] : n \in 0..MaxBatch}
Props ==
    {[kind |-> "missing", calls |-> <<>>], [kind |-> "invalid", calls |-> <<>>]}
        \cup {[kind |-> "json", calls |-> b] : b \in Batches}

\* HandleToolCall(userID, post, channel, acceptedToolIDs) is entered
InitToolCall ==
    /\ now = 0
    /\ config = [enabled |-> FALSE, servers |-> {}, idleTimeoutMinutes |-> 0]
    /\ manager = "nil"
    /\ clientTimeout = 0
    /\ toolCall \in {[NoToolCall EXCEPT !.pc = "GetBotByID", !.prop = pr, !.accepted = acc] :
                        pr \in Props, acc \in SUBSET ToolCallIDs}
    /\ clients = [u \in Users |-> NoClient]
    /\ heap = <<>>
    /\ clientsMu = [writer |-> Unlocked, readers |-> {}]
    /\ tickC = FALSE
    /\ tickerStopped = FALSE
    /\ closeChan = FALSE
    /\ pc = [p \in Procs |-> "idle"]
    /\ userID = [p \in Procs |-> "u1"]
    /\ client = [p \in Procs |-> NoClient]
    /\ userClient = [p \in Procs |-> NoClient]
    /\ tnow = [p \in Procs |-> NoTime]
    /\ err = [p \in Procs |-> FALSE]
    /\ cleanerPc = "none"
    /\ cnow = NoTime
    /\ todo = {}
    /\ closePc = "idle"
    /\ closeTodo = {}
    /\ lastErr = NoClient

toolCallFrame ==
    <<now, config, manager, clientTimeout, clients, heap, clientsMu, tickerVars,
      reqVars, cleanerVars, closeVars>>

ReturnError(tc, e) == [tc EXCEPT !.pc = "returned", !.ret = e]

\* bot := c.bots.GetBotByID(post.UserId); if bot == nil { return error }
GetBotByID(found) ==
    /\ toolCall.pc = "GetBotByID"
    /\ toolCall' = IF found THEN [toolCall EXCEPT !.pc = "UserGet"]
                   ELSE ReturnError(toolCall, "unable to get bot")
    /\ UNCHANGED toolCallFrame

\* user, err := c.pluginAPI.User.Get(userID); if err != nil { return err }
UserGet(ok) ==
    /\ toolCall.pc = "UserGet"
    /\ toolCall' = IF ok THEN [toolCall EXCEPT !.pc = "GetProp"]
                   ELSE ReturnError(toolCall, "user not found")
    /\ UNCHANGED toolCallFrame

\* toolsJSON := post.GetProp(...); json.Unmarshal(..., &tools); the range
\* loop starts at the first call, and is over at once for an empty list
GetProp ==
    /\ toolCall.pc = "GetProp"
    /\ toolCall' =
         CASE toolCall.prop.kind = "missing" ->
                ReturnError(toolCall, "post missing pending tool calls")
           [] toolCall.prop.kind = "invalid" ->
                ReturnError(toolCall, "post pending tool calls not valid JSON")
           [] OTHER ->
                [toolCall EXCEPT !.tools = toolCall.prop.calls,
                                 !.i = 1,
                                 !.pc = IF toolCall.prop.calls = <<>>
                                        THEN "UpdatePost" ELSE "range"]
    /\ UNCHANGED toolCallFrame

\* every call counts as accepted
AcceptedAll(tc) == TRUE
\* slices.Contains(acceptedToolIDs, tools[i].ID)
Accepted(tc) == tc.tools[tc.i].id \in tc.accepted

\* end of one iteration of for i := range tools
NextCall(tc) ==
    [tc EXCEPT !.i = @ + 1,
               !.pc = IF tc.i = Len(tc.tools) THEN "UpdatePost" ELSE "range"]

\* an accepted call whose failure ends HandleToolCall with the error
ResolveToolAborts(ok) ==
    /\ toolCall.pc = "range"
    /\ Accepted(toolCall)
    /\ toolCall' =
         IF ok
         THEN NextCall([toolCall EXCEPT
                  !.resolved = @ \cup {toolCall.i},
                  !.tools[toolCall.i].result = ToolOutput,
                  !.tools[toolCall.i].status = ToolCallStatusSuccess])
         ELSE ReturnError([toolCall EXCEPT
                  !.resolved = @ \cup {toolCall.i},
                  !.failed = @ \cup {toolCall.i}], "Tool call failed")
    /\ UNCHANGED toolCallFrame

\* an accepted call: llmContext.Tools.ResolveTool(...) is called; on an
\* error the call is marked failed and the loop continues
ResolveTool(ok) ==
    /\ toolCall.pc = "range"
    /\ Accepted(toolCall)
    /\ toolCall' =
         IF ok
         THEN NextCall([toolCall EXCEPT
                  !.resolved = @ \cup {toolCall.i},
                  !.tools[toolCall.i].result = ToolOutput,
                  !.tools[toolCall.i].status = ToolCallStatusSuccess])
         ELSE NextCall([toolCall EXCEPT
                  !.resolved = @ \cup {toolCall.i},
                  !.failed = @ \cup {toolCall.i},
                  !.tools[toolCall.i].result = "Tool call failed",
                  !.tools[toolCall.i].status = ToolCallStatusError])
    /\ UNCHANGED toolCallFrame

\* a call the user did not accept
RejectTool ==
    /\ toolCall.pc = "range"
    /\ ~Accepted(toolCall)
    /\ toolCall' =
         NextCall([toolCall EXCEPT
             !.tools[toolCall.i].result = "Tool call rejected by user",
             !.tools[toolCall.i].status = ToolCallStatusRejected])
    /\ UNCHANGED toolCallFrame

\* if !slices.ContainsFunc(tools, Status == Success) { return nil }
AlwaysContinue(ts) == FALSE
NoSuccess(ts) == \A k \in 1..Len(ts) : ts[k].status # ToolCallStatusSuccess

\* json.Marshal(tools); post.AddProp(...); c.pluginAPI.Post.UpdatePost(post)
UpdatePost(marshalled, ok) ==
    /\ toolCall.pc = "UpdatePost"
    /\ toolCall' =
         IF ~marshalled
         THEN ReturnError(toolCall, "failed to marshal tool call results")
         ELSE IF ~ok
         THEN ReturnError([toolCall EXCEPT !.prop.calls = toolCall.tools],
                          "failed to update post with tool call results")
         ELSE [toolCall EXCEPT !.prop.calls = toolCall.tools,
                               !.updated = TRUE,
                               !.pc = "ContainsSuccess"]
    /\ UNCHANGED toolCallFrame

\* Only continue if at least one tool call was successful
ContainsSuccess ==
    /\ toolCall.pc = "ContainsSuccess"
    /\ toolCall' = IF NoSuccess(toolCall.tools)
                   THEN ReturnError(toolCall, "nil")
                   ELSE [toolCall EXCEPT !.pc = "GetThreadData"]
    /\ UNCHANGED toolCallFrame

\* mmapi.GetThreadData(c.mmClient, responseRootID)
GetThreadData(ok) ==
    /\ toolCall.pc = "GetThreadData"
    /\ toolCall' = IF ok THEN [toolCall EXCEPT !.pc = "existingConversationToLLMPosts"]
                   ELSE ReturnError(toolCall, "failed to get previous conversation")
    /\ UNCHANGED toolCallFrame

\* c.existingConversationToLLMPosts(bot, previousConversation, llmContext)
existingConversationToLLMPosts(ok) ==
    /\ toolCall.pc = "existingConversationToLLMPosts"
    /\ toolCall' =
         IF ok THEN [toolCall EXCEPT !.pc = "ChatCompletion"]
         ELSE ReturnError(toolCall, "failed to convert existing conversation to LLM posts")
    /\ UNCHANGED toolCallFrame

\* bot.LLM().ChatCompletion(completionRequest): the completion is requested
ChatCompletion(ok) ==
    /\ toolCall.pc = "ChatCompletion"
    /\ toolCall' =
         IF ok THEN [toolCall EXCEPT !.completion = TRUE, !.pc = "StreamToNewPost"]
         ELSE ReturnError([toolCall EXCEPT !.completion = TRUE],
                          "failed to get chat completion")
    /\ UNCHANGED toolCallFrame

\* c.streamingService.StreamToNewPost(...); return nil
StreamToNewPost(ok) ==
    /\ toolCall.pc = "StreamToNewPost"
    /\ toolCall' = ReturnError(toolCall,
                       IF ok THEN "nil" ELSE "failed to stream result to new post")
    /\ UNCHANGED toolCallFrame

\* ------------------------------------------------------------ the system
Next ==
    \/ AdvanceTime
    \/ \E p \in Procs, u \in Users : GetToolsForUser(p, u)
    \/ \E p \in Procs : Lookup(p)
    \/ \E p \in Procs : FastNow(p)
    \/ \E p \in Procs : FastSet(p)
    \/ \E p \in Procs : RecheckHit(p)
    \/ \E p \in Procs : RecheckSet(p)
    \/ \E p \in Procs : CreateUserClient(p)
    \/ \E p \in Procs, s \in Servers : ConnectToServer(p, s)
    \/ \E p \in Procs, s \in Servers : ConnectFailed(p, s)
    \/ \E p \in Procs : Store(p)
    \/ \E p \in Procs : Return(p)
    \/ SelectTick
    \/ SelectClose
    \/ CleanerLock
    \/ \E u \in Users, ok \in BOOLEAN : EvictInactive(u, ok)
    \/ \E u \in Users : KeepActive(u)
    \/ CleanerUnlock
    \/ CloseCloseChan
    \/ CloseAgain
    \/ CloseStopTicker
    \/ CloseLock
    \/ \E u \in Users, ok \in BOOLEAN : CloseUserClient(u, ok)
    \/ CloseClear

Spec == Init /\ [][Next]_vars

\* NewClientManager from any configuration, and the cleanup goroutine of the
\* manager it returns, with no caller yet.
NextNew ==
    \/ NewClientManager
    \/ AdvanceTime
    \/ SelectTick
    \/ CleanerLock
    \/ CleanerUnlock

SpecNew == InitNew /\ [][NextNew]_vars

\* The manager with Close called at most once.
NextOnce ==
    \/ AdvanceTime
    \/ \E p \in Procs, u \in Users : GetToolsForUser(p, u)
    \/ \E p \in Procs : Lookup(p)
    \/ \E p \in Procs : FastNow(p)
    \/ \E p \in Procs : FastSet(p)
    \/ \E p \in Procs : RecheckHit(p)
    \/ \E p \in Procs : RecheckSet(p)
    \/ \E p \in Procs : CreateUserClient(p)
    \/ \E p \in Procs, s \in Servers : ConnectToServer(p, s)
    \/ \E p \in Procs, s \in Servers : ConnectFailed(p, s)
    \/ \E p \in Procs : Store(p)
    \/ \E p \in Procs : Return(p)
    \/ SelectTick
    \/ SelectClose
    \/ CleanerLock
    \/ \E u \in Users, ok \in BOOLEAN : EvictInactive(u, ok)
    \/ \E u \in Users : KeepActive(u)
    \/ CleanerUnlock
    \/ CloseCloseChan
    \/ CloseStopTicker
    \/ CloseLock
    \/ \E u \in Users, ok \in BOOLEAN : CloseUserClient(u, ok)
    \/ CloseClear

\* the steps of a GetToolsForUser call once it is entered
CallerStep(p) ==
    \/ Lookup(p)
    \/ FastNow(p)
    \/ FastSet(p)
    \/ RecheckHit(p)
    \/ RecheckSet(p)
    \/ CreateUserClient(p)
    \/ \E s \in Servers : ConnectToServer(p, s) \/ ConnectFailed(p, s)
    \/ Store(p)
    \/ Return(p)

\* the steps of the cleanup goroutine
CleanerStep ==
    \/ SelectTick
    \/ SelectClose
    \/ CleanerLock
    \/ \E u \in Users : KeepActive(u) \/ \E ok \in BOOLEAN : EvictInactive(u, ok)
    \/ CleanerUnlock

\* the steps of Close once it is entered
CloseStep ==
    \/ CloseStopTicker
    \/ CloseLock
    \/ \E u \in Users, ok \in BOOLEAN : CloseUserClient(u, ok)
    \/ CloseClear

\* Every goroutine that stays able to take a step takes one: a runnable
\* goroutine is scheduled, every connect and every Close of a client
\* terminates, and a goroutine waiting for m.clientsMu takes it once it stays
\* free. Nothing makes a caller call, the clock advance or Close be called.
Fairness ==
    /\ \A p \in Procs : WF_vars(CallerStep(p))
    /\ WF_vars(CleanerStep)
    /\ WF_vars(CloseStep)

\* The manager one ticker period before the clock stops: a GetToolsForUser("u1")
\* created the client of "u1" one period ago, stored it and returned, and the
\* cleanup pass of this period has kept it.
InitLate ==
    /\ now = MaxTime - 1
    /\ config = [enabled |-> TRUE, servers |-> Servers,
                 idleTimeoutMinutes |-> IdleTimeoutMinutes]
    /\ manager = "active"
    /\ clientTimeout = EffectiveTimeout(IdleTimeoutMinutes)
    /\ toolCall = NoToolCall
    /\ clients = [u \in Users |-> IF u = "u1" THEN 1 ELSE NoClient]
    /\ heap = <<[AddServer(AddServer(NewUserClient("u1", MaxTime - 2), "a"), "b")
                    EXCEPT !.published = TRUE]>>
    /\ clientsMu = [writer |-> Unlocked, readers |-> {}]
    /\ tickC = FALSE
    /\ tickerStopped = FALSE
    /\ closeChan = FALSE
    /\ pc = [p \in Procs |-> "idle"]
    /\ userID = [p \in Procs |-> "u1"]
    /\ client = [p \in Procs |-> NoClient]
    /\ userClient = [p \in Procs |-> NoClient]
    /\ tnow = [p \in Procs |-> NoTime]
    /\ err = [p \in Procs |-> FALSE]
    /\ cleanerPc = "select"
    /\ cnow = NoTime
    /\ todo = {}
    /\ closePc = "idle"
    /\ closeTodo = {}
    /\ lastErr = NoClient

SpecFair == InitLate /\ [][NextOnce]_vars /\ Fairness

\* The manager some time after an earlier GetToolsForUser("u1") created the
\* client of "u1", connected to every server, stored it and returned.
InitStored ==
    /\ now = 0
    /\ config = [enabled |-> TRUE, servers |-> Servers,
                 idleTimeoutMinutes |-> IdleTimeoutMinutes]
    /\ manager = "active"
    /\ clientTimeout = EffectiveTimeout(IdleTimeoutMinutes)
    /\ toolCall = NoToolCall
    /\ clients = [u \in Users |-> IF u = "u1" THEN 1 ELSE NoClient]
    /\ heap = <<[AddServer(AddServer(NewUserClient("u1", 0), "a"), "b")
                    EXCEPT !.published = TRUE]>>
    /\ clientsMu = [writer |-> Unlocked, readers |-> {}]
    /\ tickC = FALSE
    /\ tickerStopped = FALSE
    /\ closeChan = FALSE
    /\ pc = [p \in Procs |-> "idle"]
    /\ userID = [p \in Procs |-> "u1"]
    /\ client = [p \in Procs |-> NoClient]
    /\ userClient = [p \in Procs |-> NoClient]
    /\ tnow = [p \in Procs |-> NoTime]
    /\ err = [p \in Procs |-> FALSE]
    /\ cleanerPc = "select"
    /\ cnow = NoTime
    /\ todo = {}
    /\ closePc = "idle"
    /\ closeTodo = {}
    /\ lastErr = NoClient

SpecStored == InitStored /\ [][Next]_vars

\* one HandleToolCall, from any post and any set of accepted tool call IDs
NextToolCall ==
    \/ \E found \in BOOLEAN : GetBotByID(found)
    \/ \E ok \in BOOLEAN : UserGet(ok)
    \/ GetProp
    \/ \E ok \in BOOLEAN : ResolveTool(ok)
    \/ RejectTool
    \/ \E marshalled, ok \in BOOLEAN : UpdatePost(marshalled, ok)
    \/ ContainsSuccess
    \/ \E ok \in BOOLEAN : GetThreadData(ok)
    \/ \E ok \in BOOLEAN : existingConversationToLLMPosts(ok)
    \/ \E ok \in BOOLEAN : ChatCompletion(ok)
    \/ \E ok \in BOOLEAN : StreamToNewPost(ok)

SpecToolCall == InitToolCall /\ [][NextToolCall]_vars

\* ------------------------------------------------------------ properties
Ids == 1..Len(heap)
InFlight(p) == pc[p] \notin {"idle", "returned"}

\* a UserClient whose ConnectToAllServers succeeded and that has not been closed
Live(i) == heap[i].clients = Servers /\ ~heap[i].connErr /\ heap[i].closed = 0

C2_AtMostOneLive ==
    \A u \in Users :
        /\ Cardinality({i \in Ids : heap[i].userID = u /\ Live(i)}) <= 1
        /\ \A i \in Ids : (heap[i].userID = u /\ Live(i) /\ heap[i].published)
                              => clients[u] = i
        /\ clients[u] # NoClient => heap[clients[u]].userID = u

C2_Witness ==
    \E u \in Users :
        /\ clients[u] # NoClient /\ Live(clients[u])
        /\ clientsMu = Free
        /\ \E i \in Ids : i # clients[u] /\ heap[i].userID = u /\ heap[i].closed > 0

\* C3: the step in which a server fails to connect returns an error and no
\* catalog, changes no registry entry and leaves the user without an entry;
\* the registry does not change while the creation holds the lock before
\* that, and a failed UserClient is referenced by no entry and no caller.
C3_FailedCreationPublishesNothing ==
    [][/\ \A p \in Procs :
            (pc[p] = "connect" /\ pc'[p] = "return")
                => /\ Result(p)' = [err |-> TRUE, tools |-> {}]
                   /\ client'[p] = NoClient
                   /\ clients' = clients
                   /\ clients[userID[p]] = NoClient
       /\ \A p \in Procs : (pc[p] = "connect" /\ pc'[p] = "connect") => clients' = clients
       /\ \A i \in 1..Len(heap') :
            heap'[i].connErr
                => /\ \A u \in Users : clients'[u] # i
                   /\ \A p \in Procs : client'[p] # i]_vars

C3_Witness ==
    \E p \in Procs :
        /\ pc[p] = "return" /\ err[p]
        /\ heap[userClient[p]].connErr
        /\ heap[userClient[p]].clients # {}
        /\ clients[userID[p]] = NoClient

\* C4: a call allocates at most one UserClient (no retry); a creation starts
\* from a new, empty UserClient and no lookup ever yields a failed one (no
\* caching); the creation succeeds when every server has connected.
C4_NoRetryNoCache ==
    [][\A p \in Procs :
          /\ userClient[p] # NoClient => userClient'[p] \in {userClient[p], NoClient}
          /\ (userClient[p] = NoClient /\ userClient'[p] # NoClient)
                => /\ userClient'[p] = Len(heap) + 1
                   /\ heap'[userClient'[p]] = NewUserClient(userID[p], now)
          /\ client'[p] # NoClient => ~heap'[client'[p]].connErr
          /\ (pc[p] = "connect" /\ heap'[userClient[p]].clients = Servers
                /\ ~heap'[userClient[p]].connErr)
                => pc'[p] = "store"
          /\ (pc[p] = "store" /\ pc'[p] # "store")
                => /\ pc'[p] = "return" /\ ~err'[p]
                   /\ client'[p] = userClient[p]
                   /\ clients'[userID[p]] = userClient[p]]_vars

C4_Witness ==
    \E p \in Procs :
        /\ pc[p] = "return" /\ ~err[p] /\ userClient[p] # NoClient
        /\ heap[userClient[p]].clients = Servers
        /\ \E i \in Ids : /\ i < userClient[p]
                          /\ heap[i].userID = userID[p]
                          /\ heap[i].connErr

\* every tool a server advertises is registered, under a server advertising it
FullyPopulated(o) ==
    /\ o.clients = Servers
    /\ ~o.connErr
    /\ \A tl \in Tools :
         IF \E s \in Servers : tl \in ServerTools(s)
         THEN o.toolDefs[tl] \in Servers /\ tl \in ServerTools(o.toolDefs[tl])
         ELSE o.toolDefs[tl] = NoServer

\* C5: every registry entry is connected to all servers with its catalog
\* complete, and the sessions and catalog of an entry do not change while it
\* stays in the registry.
C5_PublishedComplete ==
    [][\A u \in Users :
          /\ clients'[u] # NoClient => FullyPopulated(heap'[clients'[u]])
          /\ (clients[u] # NoClient /\ clients'[u] = clients[u])
                => /\ heap'[clients[u]].toolDefs = heap[clients[u]].toolDefs
                   /\ heap'[clients[u]].clients = heap[clients[u]].clients]_vars

C5_Witness ==
    \E p \in Procs :
        /\ pc[p] = "return" /\ ~err[p] /\ userClient[p] = NoClient
        /\ clients[userID[p]] = client[p]
        /\ Result(p).tools = Tools

\* C6: the step by which getClientForUser succeeds (fast path, recheck path
\* or creation) leaves in the entry's lastActivity the time the call read
\* from the clock, and what a call reads from the clock is the current time.
C6_LastActivityRefreshed ==
    [][\A p \in Procs :
          /\ (pc[p] # "return" /\ pc'[p] = "return" /\ ~err'[p])
                => /\ client'[p] # NoClient
                   /\ tnow'[p] # NoTime
                   /\ heap'[client'[p]].lastActivity = tnow'[p]
          /\ (tnow'[p] # tnow[p] /\ tnow'[p] # NoTime) => tnow'[p] = now]_vars

C6_Witness ==
    \E p \in Procs :
        /\ pc[p] = "return" /\ ~err[p] /\ userClient[p] = NoClient
        /\ tnow[p] > 0
        /\ heap[client[p]].lastActivity = tnow[p]
        /\ heap[client[p]].closed = 0

\* C7: a pass starts with every entry to visit and its now read from the
\* clock, ends only when none is left to visit, and every entry that leaves
\* the to-visit set with now - lastActivity > timeout is closed and removed
\* in that step.
C7_IdleEntriesEvicted ==
    [][/\ (cleanerPc # "scan" /\ cleanerPc' = "scan")
            => (todo' = Entries /\ cnow' = now)
       /\ (cleanerPc = "scan" /\ cleanerPc' # "scan") => todo = {}
       /\ \A u \in Users :
            (cleanerPc = "scan" /\ u \in todo /\ u \notin todo'
                /\ (cnow - heap[clients[u]].lastActivity) * CleanupInterval > clientTimeout)
                => /\ clients'[u] = NoClient
                   /\ heap'[clients[u]].closed = heap[clients[u]].closed + 1]_vars

C7_Witness ==
    /\ cleanerPc = "scan" /\ todo = {} /\ closePc = "idle"
    /\ \A u \in Users :
         /\ clients[u] = NoClient
         /\ \E i \in Ids : heap[i].userID = u /\ heap[i].closed = 1

\* C8: a step of the cleanup goroutine changes neither the registry entry nor
\* the UserClient (lastActivity included) of an entry whose
\* now - lastActivity is at most the timeout.
C8_ActiveEntriesKept ==
    [][\A u \in Users :
          (/\ cleanerPc = "scan"
           /\ <<cleanerPc, cnow, todo>>' # <<cleanerPc, cnow, todo>>
           /\ clients[u] # NoClient
           /\ (cnow - heap[clients[u]].lastActivity) * CleanupInterval <= clientTimeout)
              => /\ clients'[u] = clients[u]
                 /\ heap'[clients[u]] = heap[clients[u]]]_vars

C8_Witness ==
    \E u \in Users :
        /\ cleanerPc = "scan" /\ u \notin todo
        /\ clients[u] # NoClient
        /\ (cnow - heap[clients[u]].lastActivity) * CleanupInterval = clientTimeout

\* C9: no lookup yields a UserClient that was closed, and what a creation
\* stores is the UserClient it allocated itself, never stored or closed
\* before and newer than every UserClient of that user.
C9_ReconnectAfterEviction ==
    [][/\ \A p \in Procs :
            (client'[p] # client[p] /\ client'[p] # NoClient)
                => heap'[client'[p]].closed = 0
       /\ \A u \in Users :
            (clients'[u] # clients[u] /\ clients'[u] # NoClient)
                => /\ \E p \in Procs : userID[p] = u /\ userClient[p] = clients'[u]
                   /\ ~heap[clients'[u]].published
                   /\ heap[clients'[u]].closed = 0
                   /\ heap[clients'[u]].clients = Servers
                   /\ \A i \in Ids : heap[i].userID = u => i <= clients'[u]]_vars

C9_Witness ==
    \E p \in Procs :
        /\ pc[p] = "return" /\ ~err[p] /\ userClient[p] # NoClient
        /\ closePc = "idle"
        /\ clients[userID[p]] = userClient[p]
        /\ \E i \in Ids : /\ i < userClient[p]
                          /\ heap[i].userID = userID[p]
                          /\ heap[i].closed > 0

\* C10 (as stated): once Close has returned the cleanup goroutine runs no
\* pass over the registry.
C10_NoPassAfterClose ==
    closePc = "done" => cleanerPc # "scan"

\* C11: While Close holds the lock the registry does not change, and at the
\* step where Close returns the registry becomes empty and every UserClient
\* that was in it has had Close called on it, whether or not a Close failed.
C11_TeardownClosesAll ==
    [][/\ (closePc = "closing" /\ closePc' = "closing") => clients' = clients
       /\ (closePc = "closing" /\ closePc' = "done") =>
              \A u \in Users :
                  /\ clients'[u] = NoClient
                  /\ clients[u] # NoClient => heap[clients[u]].closed >= 1]_vars

\* Close has returned with nothing evicted before: two clients were closed by
\* it, and the Close of one of them failed.
C11_Witness ==
    /\ closePc = "done"
    /\ now = 0
    /\ \A u \in Users : clients[u] = NoClient
    /\ \E i, j \in Ids :
          /\ i # j
          /\ heap[i].closed = 1 /\ heap[i].closeErr
          /\ heap[j].closed = 1 /\ ~heap[j].closeErr

\* C12: At the step where Close returns, the returned lastErr is nil exactly
\* when no Close of a registry entry failed, and otherwise it is the error of a
\* client whose Close failed; in the loop a failing Close replaces lastErr by
\* its own error and a succeeding one leaves lastErr as it is, so the returned
\* error is that of the last failing Close.
C12_ReturnsLastError ==
    [][/\ (closePc = "closing" /\ closePc' = "done") =>
              /\ lastErr' = NoClient <=>
                     \A u \in Users :
                         clients[u] # NoClient => ~heap[clients[u]].closeErr
              /\ lastErr' # NoClient =>
                     /\ \E u \in Users : clients[u] = lastErr'
                     /\ heap[lastErr'].closeErr
       /\ (closePc = "closing" /\ closeTodo' # closeTodo) =>
              \E u \in closeTodo \ closeTodo' :
                  lastErr' = IF heap'[clients[u]].closeErr THEN clients[u] ELSE lastErr]_vars

\* Close has returned the error of one client although the Close of another
\* client, visited earlier, failed too.
C12_Witness ==
    /\ closePc = "done"
    /\ now = 0
    /\ lastErr # NoClient
    /\ \E i \in Ids : i # lastErr /\ heap[i].closed = 1 /\ heap[i].closeErr

\* C13: Once Close has returned, the only step of a Close is the panic of a
\* second call at close(m.closeChan): it closes no client, leaves the registry
\* and lastErr as they are and returns nothing, and after it no goroutine
\* takes another step.
C13_SecondCloseAborts ==
    [][/\ closePc = "done" =>
              /\ closePc' \in {"done", "panic"}
              /\ closePc' = "panic" =>
                     /\ heap' = heap
                     /\ clients' = clients
                     /\ closeTodo' = closeTodo
                     /\ lastErr' = lastErr
       /\ closePc = "panic" => vars' = vars]_vars

\* The second Close has panicked.
C13_Witness ==
    /\ closePc = "panic"
    /\ closeChan
    /\ \A u \in Users : clients[u] = NoClient

\* C14: NewClientManager returns nil, with no cleanup goroutine started,
\* exactly when the configuration is not enabled or names no server; in every
\* other case it returns a manager whose registry is empty, with no client
\* allocated, whose ticker runs and whose cleanup goroutine has been started.
C14_NilIffDisabled ==
    [][manager = "unconstructed" /\ manager' # "unconstructed" =>
          /\ manager' \in {"nil", "active"}
          /\ manager' = "nil" <=> (~config.enabled \/ config.servers = {})
          /\ manager' = "nil" => cleanerPc' = "none"
          /\ manager' = "active" =>
                 /\ \A u \in Users : clients'[u] = NoClient
                 /\ heap' = <<>>
                 /\ cleanerPc' = "select"
                 /\ ~tickerStopped' /\ ~closeChan']_vars

\* NewClientManager returned nil for an enabled configuration without servers.
C14_Witness ==
    /\ manager = "nil"
    /\ config.enabled
    /\ config.servers = {}
    /\ cleanerPc = "none"

\* C15: The idle timeout of an active manager is 30 minutes when the configured
\* IdleTimeoutMinutes is n <= 0 and n minutes when n > 0.
C15_EffectiveTimeout ==
    manager = "active" =>
        clientTimeout = IF config.idleTimeoutMinutes <= 0
                        THEN DefaultIdleTimeoutMinutes
                        ELSE config.idleTimeoutMinutes

\* C16: When a server is registered during a connect sequence, every tool it
\* advertises is bound to it in the catalog, replacing the binding of a server
\* registered earlier, and the bindings of the other names stay; the catalog
\* holds each name advertised by a registered server once.
C16_LaterServerWins ==
    [][\A p \in Procs :
          (/\ pc[p] = "connect"
           /\ heap'[userClient[p]].clients # heap[userClient[p]].clients) =>
              \E s \in Servers \ heap[userClient[p]].clients :
                  /\ heap'[userClient[p]].clients = heap[userClient[p]].clients \cup {s}
                  /\ \A tl \in Tools :
                        heap'[userClient[p]].toolDefs[tl] =
                            IF tl \in ServerTools(s) THEN s
                            ELSE heap[userClient[p]].toolDefs[tl]
                  /\ GetTools(heap'[userClient[p]]) =
                        UNION {ServerTools(t) : t \in heap'[userClient[p]].clients}]_vars

\* Both servers are registered, "a" after "b": the tool "x" they both
\* advertise is bound to "a", and the catalog has the three names.
C16_Witness ==
    \E p \in Procs :
        /\ pc[p] = "store"
        /\ heap[userClient[p]].clients = Servers
        /\ heap[userClient[p]].toolDefs = [tl \in Tools |-> IF tl = "z" THEN "b" ELSE "a"]
        /\ Cardinality(GetTools(heap[userClient[p]])) = 3

C20_CleanerStoppedBeforeRelease ==
    closePc = "closing" =>
        \/ cleanerPc = "exited"
        \/ cleanerPc = "select" /\ ~tickC

\* a call of the batch has the status Success
AnySucceeded ==
    \E k \in 1..Len(toolCall.tools) : toolCall.tools[k].status = ToolCallStatusSuccess
FinalStatuses == {ToolCallStatusSuccess, ToolCallStatusError, ToolCallStatusRejected}
EntryErrors ==
    {"unable to get bot", "user not found", "post missing pending tool calls",
     "post pending tool calls not valid JSON"}

\* C17: Every iteration of the loop of HandleToolCall settles the call it is
\* at and no other, and goes on to the next call without returning, also when
\* ResolveTool failed: the failed call then has the result "Tool call failed"
\* and the status Error; once the loop is over every call of the batch has one
\* of the statuses Success, Error and Rejected.
C17_FailureDoesNotAbortBatch ==
    [][/\ toolCall.pc = "range" =>
              /\ toolCall'.ret = "none"
              /\ toolCall'.i = toolCall.i + 1
              /\ toolCall'.pc = IF toolCall.i < Len(toolCall.tools)
                                THEN "range" ELSE "UpdatePost"
              /\ Len(toolCall'.tools) = Len(toolCall.tools)
              /\ \A k \in 1..Len(toolCall.tools) :
                    k # toolCall.i => toolCall'.tools[k] = toolCall.tools[k]
              /\ toolCall'.tools[toolCall.i].status \in FinalStatuses
              /\ toolCall.i \in toolCall'.failed =>
                    /\ toolCall'.tools[toolCall.i].result = "Tool call failed"
                    /\ toolCall'.tools[toolCall.i].status = ToolCallStatusError
       /\ (toolCall'.pc # "range" /\ toolCall'.ret \notin EntryErrors
           /\ toolCall.pc \notin {"GetBotByID", "UserGet"}) =>
              \A k \in 1..Len(toolCall'.tools) :
                  toolCall'.tools[k].status \in FinalStatuses]_vars

\* The first call of a batch failed to resolve and the calls after it were
\* still settled: the second one ran.
C17_Witness ==
    /\ toolCall.pc = "UpdatePost"
    /\ Len(toolCall.tools) = MaxBatch
    /\ 1 \in toolCall.failed
    /\ toolCall.tools[1].status = ToolCallStatusError
    /\ toolCall.tools[1].result = "Tool call failed"
    /\ toolCall.tools[2].status = ToolCallStatusSuccess
    /\ toolCall.tools[MaxBatch].status \in FinalStatuses

\* C18 (as stated): a completion is requested only if a call of the batch
\* ended with the status Success; when the loop is over and every call of a
\* batch was rejected or failed, HandleToolCall returns nil, the post updated,
\* without requesting one.
C18_NoSuccessUpdatesAndReturnsNil ==
    /\ toolCall.completion => AnySucceeded
    /\ (/\ toolCall.pc = "returned"
        /\ toolCall.ret \notin EntryErrors
        /\ toolCall.tools # <<>>
        /\ ~AnySucceeded) =>
           /\ toolCall.updated
           /\ toolCall.ret = "nil"
           /\ ~toolCall.completion

\* C18 (amended): a completion is requested only after the post was updated
\* and only if a call of the batch ended with the status Success; when the
\* loop is over and no call did, HandleToolCall requests no completion and
\* returns nil if the post was updated, and the error of the marshalling or of
\* the update if it was not.
C18_CompletionOnlyAfterSuccess ==
    /\ toolCall.completion => (AnySucceeded /\ toolCall.updated)
    /\ (/\ toolCall.pc = "returned"
        /\ toolCall.ret \notin EntryErrors
        /\ ~AnySucceeded) =>
           /\ ~toolCall.completion
           /\ toolCall.prop.kind = "json"
           /\ IF toolCall.updated
              THEN toolCall.ret = "nil" /\ toolCall.prop.calls = toolCall.tools
              ELSE toolCall.ret \in {"failed to marshal tool call results",
                                     "failed to update post with tool call results"}

\* HandleToolCall returned nil for a batch with a failed and a rejected call
\* and none that ran: the post is updated and no completion was requested.
C18_Witness ==
    /\ toolCall.pc = "returned"
    /\ toolCall.ret = "nil"
    /\ toolCall.updated
    /\ ~toolCall.completion
    /\ toolCall.prop.calls = toolCall.tools
    /\ \E j, k \in 1..Len(toolCall.tools) :
          /\ toolCall.tools[j].status = ToolCallStatusError
          /\ toolCall.tools[k].status = ToolCallStatusRejected

\* C21: When the cleanup pass closes an entry, also when that Close fails,
\* the entry is removed from the registry in the same step, and the pass goes
\* on, the lock held, with every entry it has not visited yet; the pass ends
\* only when it has visited every entry.
C21_FailedCloseStillEvicts ==
    [][/\ \A u \in Users :
             (/\ cleanerPc = "scan"
              /\ clients[u] # NoClient
              /\ heap'[clients[u]].closed > heap[clients[u]].closed) =>
                 /\ clients'[u] = NoClient
                 /\ \A v \in Users \ {u} : clients'[v] = clients[v]
                 /\ todo' = todo \ {u}
                 /\ cleanerPc' = "scan"
                 /\ clientsMu' = Locked(Cleaner)
       /\ (cleanerPc = "scan" /\ cleanerPc' # "scan") => todo = {}]_vars

\* In a cleanup pass the Close of an inactive client has failed: the client
\* is out of the registry and the pass still has an entry to visit.
C21_Witness ==
    /\ cleanerPc = "scan"
    /\ closePc = "idle"
    /\ todo # {}
    /\ \E i \in Ids :
          /\ heap[i].closed = 1
          /\ heap[i].closeErr
          /\ clients[heap[i].userID] = NoClient

C23_LastActivityMonotonic ==
    [][\A i \in Ids : heap'[i].lastActivity >= heap[i].lastActivity]_vars

\* C24: As long as Close has not been called, a caller on the fast path of
\* getClientForUser that is about to store lastActivity holds a client that
\* is in the registry under its user and is not closed.
C24_FastPathAtomic ==
    \A p \in Procs :
        (pc[p] = "fastSet" /\ closePc = "idle") =>
            /\ clients[userID[p]] = client[p]
            /\ heap[client[p]].closed = 0

\* C25: A call of the batch whose ID is not among the accepted IDs is never
\* passed to ResolveTool, and once the loop has been at it it has the result
\* "Tool call rejected by user" and the status Rejected.
C25_UnacceptedNeverResolved ==
    \A k \in 1..Len(toolCall.tools) :
        toolCall.tools[k].id \notin toolCall.accepted =>
            /\ k \notin toolCall.resolved
            /\ k < toolCall.i =>
                  /\ toolCall.tools[k].status = ToolCallStatusRejected
                  /\ toolCall.tools[k].result = "Tool call rejected by user"

\* HandleToolCall has returned for a batch in which one call failed, one
\* was not accepted and is rejected, and one ran.
C25_Witness ==
    /\ toolCall.pc = "returned"
    /\ \E j, k, l \in 1..Len(toolCall.tools) :
          /\ toolCall.tools[j].status = ToolCallStatusError
          /\ toolCall.tools[k].id \notin toolCall.accepted
          /\ k \notin toolCall.resolved
          /\ toolCall.tools[k].status = ToolCallStatusRejected
          /\ toolCall.tools[l].status = ToolCallStatusSuccess

\* C26: Close is called at most once on every UserClient.
C26_ClosedAtMostOnce ==
    \A i \in Ids : heap[i].closed <= 1

\* Close has returned; a client of a user was closed by a cleanup pass and
\* the client created for the same user afterwards was closed, each once.
C26_Witness ==
    /\ closePc = "done"
    /\ \E i, j \in Ids :
          /\ i < j
          /\ heap[i].userID = heap[j].userID
          /\ heap[i].published /\ heap[j].published
          /\ heap[i].closed = 1 /\ heap[j].closed = 1

\* C27: Whenever no goroutine holds the write lock, no client in the
\* registry is closed.
C27_RegistryEntriesUnclosed ==
    clientsMu.writer = Unlocked =>
        \A u \in Users : clients[u] # NoClient => heap[clients[u]].closed = 0

\* The lock is free after a cleanup pass that closed the client of one user
\* and kept the client of the other in the registry.
C27_Witness ==
    /\ clientsMu = Free
    /\ closePc = "idle"
    /\ \E i, j \in Ids :
          /\ heap[i].closed = 1
          /\ clients[heap[i].userID] = NoClient
          /\ clients[heap[j].userID] = j
          /\ heap[j].closed = 0

\* the caller is in the connect sequence of a creation, or about to store
Connecting(p) == pc[p] \in {"connect", "store"}

\* C28: A caller in a connect sequence holds the write lock and is the only
\* one in a connect sequence; as long as it is, the registry is changed by no
\* step but its own, no other caller gets past its lookup or its Lock, no
\* cleanup pass starts or runs and Close does not get to closing clients.
C28_ConnectUnderExclusiveLock ==
    [][\A p \in Procs :
          Connecting(p) =>
              /\ clientsMu = Locked(p)
              /\ \A q \in Procs \ {p} : ~Connecting(q) /\ pc[q] # "recheckSet"
              /\ cleanerPc # "scan" /\ closePc # "closing"
              /\ \A q \in Procs \ {p} :
                    pc[q] \in {"lookup", "Lock"} => pc'[q] = pc[q]
              /\ cleanerPc = "Lock" => cleanerPc' = "Lock"
              /\ closePc = "Lock" => closePc' = "Lock"
              /\ clients' # clients =>
                    /\ pc[p] = "store" /\ pc'[p] = "return"
                    /\ \A u \in Users \ {userID[p]} : clients'[u] = clients[u]]_vars

\* A caller has connected one server of its creation while the other caller,
\* for another user, the cleanup goroutine and Close all wait for the lock.
C28_Witness ==
    \E p, q \in Procs :
        /\ pc[p] = "connect"
        /\ heap[userClient[p]].clients # {}
        /\ pc[q] = "Lock"
        /\ userID[q] # userID[p]
        /\ cleanerPc = "Lock"
        /\ closePc = "Lock"

\* C29: Once Close has returned and no GetToolsForUser call is in flight,
\* the registry is empty and every client that was stored in it is closed.
C29_NoLeakAfterTeardown ==
    (closePc = "done" /\ \A p \in Procs : ~InFlight(p)) =>
        /\ \A u \in Users : clients[u] = NoClient
        /\ \A i \in Ids : heap[i].published => heap[i].closed >= 1

\* C30: With Close called at most once, every GetToolsForUser call that was
\* entered returns, and a Close that was entered returns.
C30_EveryCallReturns ==
    /\ \A p \in Procs : (pc[p] = "lookup") ~> (pc[p] = "returned")
    /\ (closePc = "Stop") ~> (closePc = "done")

\* Both calls and Close have returned; one call was a creation that failed
\* and the client the other call created was closed by Close.
C30_Witness ==
    /\ closePc = "done"
    /\ \A p \in Procs : pc[p] = "returned"
    /\ \E i, j \in Ids :
          /\ heap[i].connErr
          /\ heap[j].published /\ heap[j].closed = 1
====
